---- MODULE Spec2Model ----
(***************************************************************************)
(* PPE detection server (Express handlers, per-person image jobs, the      *)
(* processed-images directory and its timers) and the parts of the client  *)
(* that classify results and submit the confidence threshold.  The three   *)
(* cleanup triggers are also followed on their own, on a file system that  *)
(* may refuse a removal.                                                   *)
(*                                                                         *)
(* Numbers: a JavaScript number x is held as the integer 2*x ("halves"),   *)
(* so 159 is 79.5 and 160 is 80; NaN and undefined are two integers far    *)
(* outside every range used.  Time is counted in minutes.                  *)
(***************************************************************************)
EXTENDS Integers, Sequences, FiniteSets, TLC

\* ------------------------------------------------------------------ bounds
MaxReq == 2
MaxPersons == 2
MaxTime == 9
MaxArrival == 4
ImgW == 4
ImgH == 4

\* ------------------------------------------------------- program constants
\* setTimeout(..., 60000): one minute
CleanupDelay == 1
\* setInterval(..., 300000): five minutes
SweepPeriod == 5
\* now - mtime > 120000: two minutes
MaxAge == 2

\* ------------------------------------------------------------------ numbers
NaN == 0 - 1000000
Undefined == 0 - 2000000

Num(x) == 2 * x

IsNumber(x) == x # NaN /\ x # Undefined

\* Math.round: nearest integer, halves go up; NaN for undefined or NaN.
MathRound(x) == IF IsNumber(x) THEN ((x + 1) \div 2) * 2 ELSE NaN

\* JavaScript comparisons: false whenever an operand is NaN.
Geq(a, b) == a # NaN /\ b # NaN /\ a >= b

Gt(a, b) == a # NaN /\ b # NaN /\ a > b

Lt(a, b) == a # NaN /\ b # NaN /\ a < b

\* Math.floor(fraction * dim); a box coordinate n stands for n/8.
FloorScale(n, dim) == (n * dim) \div 8

\* --------------------------------------------------------------- input data
Box(l, t, w, h) == [Left |-> l, Top |-> t, Width |-> w, Height |-> h]

Equip(type, conf, box) == [Type |-> type, Confidence |-> conf, BoundingBox |-> box]

\* A body part; hasDetections = FALSE is a part without an EquipmentDetections field.
Part(name, conf, dets) ==
  [Name |-> name, Confidence |-> conf, hasDetections |-> TRUE, EquipmentDetections |-> dets]

PartNoDetections(name, conf) ==
  [Name |-> name, Confidence |-> conf, hasDetections |-> FALSE, EquipmentDetections |-> << >>]

Person(id, conf, box, parts) ==
  [Id |-> id, Confidence |-> conf, BoundingBox |-> box, BodyParts |-> parts]

EquipmentTypes == {"HEAD_COVER", "FACE_COVER", "HAND_COVER"}

\* The persons the detection service answers with in the request model.
PersonGood ==
  Person(0, 199, Box(1, 1, 4, 4),
         << Part("HEAD", 198, << Equip("HEAD_COVER", 181, Box(2, 2, 2, 2)) >>) >>)

PersonBadCrop ==
  Person(0, 140, Box(7, 0, 4, 8), << Part("HEAD", 160, << >>) >>)

PersonNoDetections ==
  Person(2, 130, Box(0, 0, 8, 8), << PartNoDetections("HEAD", 120) >>)

PersonPool == {PersonGood, PersonBadCrop, PersonNoDetections}

RECURSIVE SeqsUpTo(_, _)
SeqsUpTo(S, n) ==
  IF n = 0 THEN {<< >>}
  ELSE LET shorter == SeqsUpTo(S, n - 1)
       IN shorter \cup {Append(s, x) : s \in {t \in shorter : Len(t) = n - 1}, x \in S}

ServiceAnswers == SeqsUpTo(PersonPool, MaxPersons)

\* ------------------------------------------------- processPersonImage, pure
\* Variant: the raw confidence compared, without Math.round.
ClassifyNoRound(conf, threshold) ==
  IF Geq(conf, threshold) THEN "Detected"
  ELSE IF Gt(conf, 0) THEN "Indeterminate"
  ELSE "Not Detected"

\* The tri-state status of one equipment detection (overlay classification).
Classify(conf, threshold) ==
  LET confidence == MathRound(conf)
  IN IF Geq(confidence, threshold) THEN "Detected"
     ELSE IF Gt(confidence, 0) THEN "Indeterminate"
     ELSE "Not Detected"

\* The pixel region handed to sharp.extract for a person.
CropRegion(person, w, h) ==
  [left |-> FloorScale(person.BoundingBox.Left, w),
   top |-> FloorScale(person.BoundingBox.Top, h),
   width |-> FloorScale(person.BoundingBox.Width, w),
   height |-> FloorScale(person.BoundingBox.Height, h)]

\* sharp.extract rejects a region that is empty or not inside the image.
ExtractOk(region, w, h) ==
  /\ region.left >= 0 /\ region.top >= 0
  /\ region.width > 0 /\ region.height > 0
  /\ region.left + region.width <= w
  /\ region.top + region.height <= h

FileUrl(person, uuid) == [kind |-> "file", id |-> person.Id, uuid |-> uuid]

PlaceholderUrl(person) == [kind |-> "placeholder", id |-> person.Id, uuid |-> 0]

\* Variant: the file named after the person alone.
FileNameNoUuid(person, uuid) == <<person.Id, 0>>

\* person_${person.Id}_${uuidv4()}.png
FileName(person, uuid) == <<person.Id, uuid>>

\* ---------------------------------------------- result assembly (/api/detect)
HasType(part, type) ==
  \E k \in 1..Len(part.EquipmentDetections) : part.EquipmentDetections[k].Type = type

\* bodyParts.find(p => p.EquipmentDetections.some(...)): index of the part, 0 if none.
FindPart(bodyParts, type) ==
  IF \E k \in 1..Len(bodyParts) : HasType(bodyParts[k], type)
  THEN CHOOSE k \in 1..Len(bodyParts) :
         /\ HasType(bodyParts[k], type)
         /\ \A j \in 1..(k - 1) : ~HasType(bodyParts[j], type)
  ELSE 0

\* Variant: the last detection of the type in place of the first.
FindDetectionLast(part, type) ==
  IF \E k \in 1..Len(part.EquipmentDetections) : part.EquipmentDetections[k].Type = type
  THEN CHOOSE k \in 1..Len(part.EquipmentDetections) :
         /\ part.EquipmentDetections[k].Type = type
         /\ \A j \in (k + 1)..Len(part.EquipmentDetections) :
              part.EquipmentDetections[j].Type # type
  ELSE 0

\* part.EquipmentDetections.find(eq => eq.Type === type): index, 0 if none.
FindDetection(part, type) ==
  IF HasType(part, type)
  THEN CHOOSE k \in 1..Len(part.EquipmentDetections) :
         /\ part.EquipmentDetections[k].Type = type
         /\ \A j \in 1..(k - 1) : part.EquipmentDetections[j].Type # type
  ELSE 0

\* p.EquipmentDetections.some throws a TypeError on a part without the field,
\* if find reaches that part before a part that matches.
GetStatusThrows(bodyParts, type) ==
  \E k \in 1..Len(bodyParts) :
    /\ ~bodyParts[k].hasDetections
    /\ \A j \in 1..(k - 1) : bodyParts[j].hasDetections /\ ~HasType(bodyParts[j], type)

GetStatus(bodyParts, type) ==
  LET p == FindPart(bodyParts, type)
      d == IF p = 0 THEN 0 ELSE FindDetection(bodyParts[p], type)
  IN IF d # 0
     THEN [status |-> "Detected",
           confidence |-> MathRound(bodyParts[p].EquipmentDetections[d].Confidence)]
     ELSE [status |-> "Not Detected",
           confidence |-> IF p # 0 THEN MathRound(bodyParts[p].Confidence) ELSE 0]

\* Variant: the unsupported categories reported as looked for and not found.
NotSupportedAsNotDetected == [status |-> "Not Detected", confidence |-> 0]

\* safetyVest and boots: { status: "Not Supported", confidence: 0 }
NotSupported == [status |-> "Not Supported", confidence |-> 0]

AssembleThrows(person) ==
  \E type \in EquipmentTypes : GetStatusThrows(person.BodyParts, type)

\* Variant: the right hand looked up in the body parts after the first one.
PersonRecordRightHandOwnLookup(person, idx, image) ==
  [personId |-> idx + 1,
   confidence |-> MathRound(person.Confidence),
   image |-> image,
   boundingBox |-> [x |-> person.BoundingBox.Left, y |-> person.BoundingBox.Top,
                    width |-> person.BoundingBox.Width,
                    height |-> person.BoundingBox.Height],
   hardHat |-> GetStatus(person.BodyParts, "HEAD_COVER"),
   faceMask |-> GetStatus(person.BodyParts, "FACE_COVER"),
   handProtectionL |-> GetStatus(person.BodyParts, "HAND_COVER"),
   handProtectionR |-> GetStatus(SubSeq(person.BodyParts, 2, Len(person.BodyParts)),
                                 "HAND_COVER"),
   safetyVest |-> NotSupported,
   boots |-> NotSupported]

\* The record the per-person mapper returns; idx is the index map passes, from 0.
PersonRecord(person, idx, image) ==
  [personId |-> idx + 1,
   confidence |-> MathRound(person.Confidence),
   image |-> image,
   boundingBox |-> [x |-> person.BoundingBox.Left, y |-> person.BoundingBox.Top,
                    width |-> person.BoundingBox.Width,
                    height |-> person.BoundingBox.Height],
   hardHat |-> GetStatus(person.BodyParts, "HEAD_COVER"),
   faceMask |-> GetStatus(person.BodyParts, "FACE_COVER"),
   handProtectionL |-> GetStatus(person.BodyParts, "HAND_COVER"),
   handProtectionR |-> GetStatus(person.BodyParts, "HAND_COVER"),
   safetyVest |-> NotSupported,
   boots |-> NotSupported]

\* ------------------------------------------- threshold: form text and parsing
DigitChars == <<"0", "1", "2", "3", "4", "5", "6", "7", "8", "9">>

IsDigit(c) == \E d \in 1..10 : DigitChars[d] = c

DigitVal(c) == (CHOOSE d \in 1..10 : DigitChars[d] = c) - 1

RECURSIVE Digits(_)
Digits(n) ==
  IF n < 10 THEN <<DigitChars[n + 1]>>
  ELSE Append(Digits(n \div 10), DigitChars[(n % 10) + 1])

\* Number.prototype.toString of a number held in halves.
NumberToString(x) ==
  LET a == IF x < 0 THEN 0 - x ELSE x
  IN (IF x < 0 THEN <<"-">> ELSE << >>) \o Digits(a \div 2)
       \o (IF a % 2 = 1 THEN <<".", "5">> ELSE << >>)

\* Number of digit characters of s starting at position i.
RECURSIVE DigitRun(_, _)
DigitRun(s, i) ==
  IF i <= Len(s) /\ IsDigit(s[i]) THEN 1 + DigitRun(s, i + 1) ELSE 0

RECURSIVE DigitsValue(_, _, _)
DigitsValue(s, i, n) ==
  IF n = 0 THEN 0
  ELSE 10 * DigitsValue(s, i, n - 1) + DigitVal(s[i + n - 1])

\* parseFloat: the longest numeric prefix (sign, digits, fraction), NaN without
\* one; the fraction is kept to the half.
ParseFloat(s) ==
  LET neg == Len(s) >= 1 /\ s[1] = "-"
      i == IF neg THEN 2 ELSE 1
      n == DigitRun(s, i)
      dot == i + n <= Len(s) /\ s[i + n] = "."
      m == IF dot THEN DigitRun(s, i + n + 1) ELSE 0
      half == IF m >= 1 /\ DigitVal(s[i + n + 1]) >= 5 THEN 1 ELSE 0
      mag == 2 * DigitsValue(s, i, n) + half
  IN IF n = 0 /\ m = 0 THEN NaN
     ELSE IF neg THEN 0 - mag ELSE mag

UndefinedText == <<"u", "n", "d", "e", "f", "i", "n", "e", "d">>

\* A multipart body: the image and one text field.
Form(field, text) == [field |-> field, text |-> text]

\* req.body[name]
BodyField(form, name) == IF form.field = name THEN form.text ELSE UndefinedText

\* The client's request body for a threshold.
CreateFormData(confidenceThreshold) ==
  Form("confidence_threshold", NumberToString(confidenceThreshold))

DefaultThreshold == Num(80)

\* parseFloat(req.body.confidenceThreshold) || 80
ParseThreshold(form) ==
  LET v == ParseFloat(BodyField(form, "confidenceThreshold"))
  IN IF v = NaN \/ v = 0 THEN DefaultThreshold ELSE v

\* ================================================================== server
VARIABLES
  clock,           \* Date.now(), in minutes since the server started
  nextSweep,       \* when the setInterval callback runs next
  rpc,             \* per request: where its /api/detect handler stands
  upload,          \* per request: what the uploaded file is
  srvThreshold,    \* per request: confidenceThreshold of the handler
  persons,         \* per request: data.Persons
  jobs,            \* per request: the per-person mapper promises
  settled,         \* per request: job indexes in the order they settled
  generatedFiles,  \* per request: the generatedFiles array
  uploads,         \* requests whose source file is in uploads/
  files,           \* processed-images/: name -> mtime, as a set of records
  timers,          \* per request: the setTimeout calls made, with their state
  responses,       \* per request: the responses sent
  nextUuid,        \* uuidv4 draws so far
  call,            \* a function of the program applied to drawn inputs
  client           \* the page's state: threshold, request in flight

vars == <<clock, nextSweep, rpc, upload, srvThreshold, persons, jobs, settled,
          generatedFiles, uploads, files, timers, responses, nextUuid, call, client>>

\* What the server's handlers and timers never touch.
others == <<call, client>>

Reqs == 1..MaxReq

UploadKinds == {"image", "notImage"}

\* Request bodies of the lifecycle model: the client's, at threshold 90.
RequestForms == {CreateFormData(Num(90))}

NoJob == [pc |-> "none", image |-> [kind |-> "none", id |-> 0, uuid |-> 0]]

NoCall == [op |-> "none"]

NoForm == Form("", << >>)

\* useState<File | null>(null); sentFile is the file of the request in
\* flight, results the file whose results are displayed (useState([])).
NoFile == 0

\* useState(80); nothing submitted yet.
ClientInit ==
  [confidence |-> DefaultThreshold, inFlight |-> FALSE, form |-> NoForm,
   submitted |-> Undefined, srvThreshold |-> Undefined,
   uploadedFile |-> NoFile, sentFile |-> NoFile, results |-> NoFile]

ServerInit ==
  /\ clock = 0
  /\ nextSweep = SweepPeriod
  /\ rpc = [r \in Reqs |-> "idle"]
  /\ upload = [r \in Reqs |-> "none"]
  /\ srvThreshold = [r \in Reqs |-> Undefined]
  /\ persons = [r \in Reqs |-> << >>]
  /\ jobs = [r \in Reqs |-> << >>]
  /\ settled = [r \in Reqs |-> << >>]
  /\ generatedFiles = [r \in Reqs |-> << >>]
  /\ uploads = {}
  /\ files = {}
  /\ timers = [r \in Reqs |-> << >>]
  /\ responses = [r \in Reqs |-> << >>]
  /\ nextUuid = 1

Init == ServerInit /\ call = NoCall /\ client = ClientInit

\* ------------------------------------------------------------ file helpers
\* A directory is a set of [name, mtime]; failing is the set of paths whose
\* removal the file system refuses (EPERM, EBUSY).
Names(dir) == {f.name : f \in dir}

\* fs.existsSync(path)
ExistsSync(dir, name) == name \in Names(dir)

\* fs.unlinkSync(path) throws for an absent path (ENOENT) and for a refused one.
UnlinkThrows(dir, name, failing) == ~ExistsSync(dir, name) \/ name \in failing

\* fs.unlinkSync(path), when it does not throw.
UnlinkSync(dir, name) == {f \in dir : f.name # name}

\* The course of a cleanup function: the directory it leaves, the paths whose
\* error it logged, and whether an exception left it.
Run(dir) == [dir |-> dir, logged |-> {}, threw |-> FALSE]

\* Variant: unlinkSync without the existsSync test and without the try/catch.
CleanupFilesStepNoGuard(run, filePath, failing) ==
  IF run.threw THEN run
  ELSE IF UnlinkThrows(run.dir, filePath, failing) THEN [run EXCEPT !.threw = TRUE]
  ELSE [run EXCEPT !.dir = UnlinkSync(@, filePath)]

\* One iteration of the forEach of cleanupFiles.
CleanupFilesStep(run, filePath, failing) ==
  IF run.threw THEN run
  ELSE IF ~ExistsSync(run.dir, filePath) THEN run
  ELSE IF UnlinkThrows(run.dir, filePath, failing)
       THEN [run EXCEPT !.logged = @ \cup {filePath}]
  ELSE [run EXCEPT !.dir = UnlinkSync(@, filePath)]

\* Variant: every file of the directory removed, whatever the paths given.
CleanupFilesRunWholeDirectory(dir, filePaths, failing) == Run({})

\* cleanupFiles(filePaths), path by path in the order of the array.
RECURSIVE CleanupFilesRun(_, _, _)
CleanupFilesRun(dir, filePaths, failing) ==
  IF filePaths = << >> THEN Run(dir)
  ELSE CleanupFilesStep(
         CleanupFilesRun(dir, SubSeq(filePaths, 1, Len(filePaths) - 1), failing),
         filePaths[Len(filePaths)], failing)

\* cleanupFiles(filePaths) on a file system that refuses nothing.
CleanupFiles(dir, filePaths) == CleanupFilesRun(dir, filePaths, {}).dir

\* cleanupProcessedImages(): readdirSync, then unlinkSync of every file listed,
\* each in its own try/catch.
CleanupProcessedImagesRun(dir, failing) ==
  [dir |-> {f \in dir : f.name \in failing},
   logged |-> Names(dir) \cap failing,
   threw |-> FALSE]

CleanupProcessedImages(dir) == CleanupProcessedImagesRun(dir, {}).dir

\* Variant: the sweep removing every file, whatever its age.
PeriodicCleanupRunAnyAge(dir, now, failing) ==
  [dir |-> {f \in dir : f.name \in failing},
   logged |-> Names(dir) \cap failing,
   threw |-> FALSE]

\* Variant: >= in place of > in the age test.
PeriodicCleanupRunGeq(dir, now, failing) ==
  LET old == {f \in dir : now - f.mtime >= MaxAge}
  IN [dir |-> {f \in dir : f \notin old \/ f.name \in failing},
      logged |-> Names(old) \cap failing,
      threw |-> FALSE]

\* The setInterval callback: readdirSync, then for every file statSync and, if
\* it is older than two minutes, unlinkSync, each file in its own try/catch.
PeriodicCleanupRun(dir, now, failing) ==
  LET old == {f \in dir : now - f.mtime > MaxAge}
  IN [dir |-> {f \in dir : f \notin old \/ f.name \in failing},
      logged |-> Names(old) \cap failing,
      threw |-> FALSE]

PeriodicCleanup(dir, now) == PeriodicCleanupRun(dir, now, {}).dir

\* The answers of POST /api/cleanup.
CleanupCompleted ==
  [success |-> TRUE, error |-> "", message |-> "Cleanup completed successfully"]

CleanupFailed == [success |-> FALSE, error |-> "Cleanup failed", message |-> "error"]

\* Variant: an error answered when the removal of a file was refused.
CleanupAnswerFailsOnRefusal(run) ==
  IF run.threw \/ run.logged # {} THEN CleanupFailed ELSE CleanupCompleted

\* try { cleanupProcessedImages(); res.json(...) } catch { res.status(500)... }
CleanupAnswer(run) == IF run.threw THEN CleanupFailed ELSE CleanupCompleted

\* ------------------------------------------------------------- responses
\* results is << >> where the payload has no results.
SuccessResponse(results) ==
  [success |-> TRUE, error |-> "", message |-> "PPE detection completed successfully",
   results |-> results]

ErrorResponse(error, message) ==
  [success |-> FALSE, error |-> error, message |-> message, results |-> << >>]

RekognitionError(message) ==
  ErrorResponse("Failed to process image with AWS Rekognition", message)

InternalError(message) == ErrorResponse("Error processing image", message)

\* Variant: the values collected in the order the mappers settled.
PromiseAllCompletionOrder(js, order) == [k \in 1..Len(order) |-> js[order[k]].record]

\* What Promise.all resolves to: the mappers' values, in input order.
PromiseAll(js, order) == [k \in 1..Len(js) |-> js[k].record]

NoRecord == [personId |-> 0]

\* ------------------------------------------------- /api/detect, step by step
\* multer stores the upload; the handler reads the file and the threshold and
\* awaits sharp(imagePath).metadata().
Arrive(r, kind, form) ==
  /\ rpc[r] = "idle"
  /\ clock <= MaxArrival
  /\ \A q \in Reqs : q < r => rpc[q] # "idle"
  /\ upload' = [upload EXCEPT ![r] = kind]
  /\ uploads' = uploads \cup {r}
  /\ srvThreshold' = [srvThreshold EXCEPT ![r] = ParseThreshold(form)]
  /\ rpc' = [rpc EXCEPT ![r] = "metadata"]
  /\ UNCHANGED <<clock, nextSweep, persons, jobs, settled, generatedFiles, files,
                 timers, responses, nextUuid>>
  /\ UNCHANGED others

\* The outer catch: log and answer 500; the source file is not touched.
OuterCatch(r, message) ==
  /\ responses' = [responses EXCEPT ![r] = Append(@, InternalError(message))]
  /\ rpc' = [rpc EXCEPT ![r] = "done"]
  /\ UNCHANGED uploads

\* Variant: the inner catch answering with the records finished so far.
InnerCatchPartialResults(r, message) ==
  LET RECURSIVE Done(_)
      Done(k) == IF k = 0 THEN << >>
                 ELSE IF jobs[r][k].pc = "fulfilled" THEN Append(Done(k - 1), jobs[r][k].record)
                 ELSE Done(k - 1)
  IN /\ uploads' = uploads \ {r}
     /\ responses' = [responses EXCEPT ![r] = Append(@,
                        [success |-> FALSE,
                         error |-> "Failed to process image with AWS Rekognition",
                         message |-> message, results |-> Done(Len(jobs[r]))])]
     /\ rpc' = [rpc EXCEPT ![r] = "done"]

\* The inner catch: unlink the source file and answer 500; an unlink of a file
\* that is gone throws into the outer catch.
InnerCatch(r, message) ==
  IF r \in uploads
  THEN /\ uploads' = uploads \ {r}
       /\ responses' = [responses EXCEPT ![r] = Append(@, RekognitionError(message))]
       /\ rpc' = [rpc EXCEPT ![r] = "done"]
  ELSE OuterCatch(r, "ENOENT: no such file or directory, unlink")

\* After Promise.all resolved: unlink the source, answer, set the cleanup timer.
SuccessPath(r, results) ==
  /\ r \in uploads
  /\ uploads' = uploads \ {r}
  /\ responses' = [responses EXCEPT ![r] = Append(@, SuccessResponse(results))]
  /\ timers' = [timers EXCEPT ![r] = Append(@, [due |-> clock + CleanupDelay,
                                                 state |-> "pending"])]
  /\ rpc' = [rpc EXCEPT ![r] = "done"]

\* sharp(imagePath).metadata() settles.
MetadataDone(r) ==
  /\ rpc[r] = "metadata"
  /\ IF upload[r] = "image"
     THEN /\ rpc' = [rpc EXCEPT ![r] = "calling"]
          /\ UNCHANGED <<uploads, responses>>
     ELSE OuterCatch(r, "Input file contains unsupported image format")
  /\ UNCHANGED <<clock, nextSweep, upload, srvThreshold, persons, jobs, settled,
                 generatedFiles, files, timers, nextUuid>>
  /\ UNCHANGED others

\* rekognitionClient.send rejects.
ServiceFails(r) ==
  /\ rpc[r] = "calling"
  /\ InnerCatch(r, "service error")
  /\ UNCHANGED <<clock, nextSweep, upload, srvThreshold, persons, jobs, settled,
                 generatedFiles, files, timers, nextUuid>>
  /\ UNCHANGED others

\* rekognitionClient.send resolves with ps as data.Persons: map starts one
\* mapper per person, each running up to its await loadImage.
ServiceAnswersWith(r, ps) ==
  /\ rpc[r] = "calling"
  /\ persons' = [persons EXCEPT ![r] = ps]
  /\ jobs' = [jobs EXCEPT ![r] = [k \in 1..Len(ps) |->
                [pc |-> "load", image |-> NoJob.image, record |-> NoRecord]]]
  /\ IF ps = << >>
     THEN SuccessPath(r, << >>)
     ELSE /\ rpc' = [rpc EXCEPT ![r] = "jobs"]
          /\ UNCHANGED <<uploads, responses, timers>>
  /\ UNCHANGED <<clock, nextSweep, upload, srvThreshold, settled, generatedFiles,
                 files, nextUuid>>
  /\ UNCHANGED others

\* processPersonImage returned image to mapper i: the mapper builds its record
\* (or throws), and Promise.all settles if this decides it.
MapperReturns(r, i, image) ==
  LET person == persons[r][i]
      throws == AssembleThrows(person)
      job == [pc |-> IF throws THEN "rejected" ELSE "fulfilled",
              image |-> image,
              record |-> IF throws THEN NoRecord ELSE PersonRecord(person, i - 1, image)]
      js == [jobs[r] EXCEPT ![i] = job]
      order == Append(settled[r], i)
  IN /\ jobs' = [jobs EXCEPT ![r] = js]
     /\ settled' = [settled EXCEPT ![r] = order]
     /\ IF rpc[r] = "jobs" /\ throws
        THEN /\ InnerCatch(r, "Cannot read properties of undefined (reading 'some')")
             /\ UNCHANGED timers
        ELSE IF rpc[r] = "jobs" /\ \A k \in 1..Len(js) : js[k].pc = "fulfilled"
        THEN SuccessPath(r, PromiseAll(js, order))
        ELSE UNCHANGED <<rpc, uploads, responses, timers>>

\* loadImage settles. The read succeeds while the source file is there; once it
\* is unlinked the read may have been done before or fail.
LoadDone(r, i, readOk) ==
  /\ i \in 1..Len(jobs[r])
  /\ jobs[r][i].pc = "load"
  /\ r \in uploads => readOk
  /\ IF readOk
     THEN /\ jobs' = [jobs EXCEPT ![r][i].pc = "crop"]
          /\ UNCHANGED <<settled, rpc, uploads, responses, timers>>
     ELSE MapperReturns(r, i, PlaceholderUrl(persons[r][i]))
  /\ UNCHANGED <<clock, nextSweep, upload, srvThreshold, persons, generatedFiles,
                 files, nextUuid>>
  /\ UNCHANGED others

\* Variant: processPersonImage without its try/catch, a failed crop rejecting
\* the mapper.
ProcessPersonImageNoCatch(r, i) ==
  LET person == persons[r][i]
      region == CropRegion(person, ImgW, ImgH)
  IN IF ExtractOk(region, ImgW, ImgH)
     THEN /\ files' = files \cup {[name |-> FileName(person, nextUuid), mtime |-> clock]}
          /\ generatedFiles' = [generatedFiles EXCEPT
                                  ![r] = Append(@, FileName(person, nextUuid))]
          /\ nextUuid' = nextUuid + 1
          /\ MapperReturns(r, i, FileUrl(person, nextUuid))
     ELSE /\ UNCHANGED <<files, generatedFiles, nextUuid>>
          /\ jobs' = [jobs EXCEPT ![r][i].pc = "rejected"]
          /\ settled' = [settled EXCEPT ![r] = Append(@, i)]
          /\ IF rpc[r] = "jobs"
             THEN InnerCatch(r, "extract_area: bad extract area") /\ UNCHANGED timers
             ELSE UNCHANGED <<rpc, uploads, responses, timers>>

\* sharp(...).extract(...).toBuffer() settles: on success the crop is written
\* and tracked, on failure the catch returns the placeholder.
ProcessPersonImage(r, i) ==
  LET person == persons[r][i]
      region == CropRegion(person, ImgW, ImgH)
  IN IF ExtractOk(region, ImgW, ImgH)
     THEN /\ files' = files \cup {[name |-> FileName(person, nextUuid), mtime |-> clock]}
          /\ generatedFiles' = [generatedFiles EXCEPT
                                  ![r] = Append(@, FileName(person, nextUuid))]
          /\ nextUuid' = nextUuid + 1
          /\ MapperReturns(r, i, FileUrl(person, nextUuid))
     ELSE /\ UNCHANGED <<files, generatedFiles, nextUuid>>
          /\ MapperReturns(r, i, PlaceholderUrl(person))

CropDone(r, i) ==
  /\ i \in 1..Len(jobs[r])
  /\ jobs[r][i].pc = "crop"
  /\ ProcessPersonImage(r, i)
  /\ UNCHANGED <<clock, nextSweep, upload, srvThreshold, persons>>
  /\ UNCHANGED others

\* ------------------------------------------------------------------ timers
\* The setTimeout callback of request r: cleanupFiles(generatedFiles).
DeferredCleanupWith(r, k, failing) ==
  /\ k \in 1..Len(timers[r])
  /\ timers[r][k].state = "pending"
  /\ timers[r][k].due = clock
  /\ files' = CleanupFilesRun(files, generatedFiles[r], failing).dir
  /\ timers' = [timers EXCEPT ![r][k] = [due |-> 0, state |-> "fired"]]
  /\ UNCHANGED <<clock, nextSweep, rpc, upload, srvThreshold, persons, jobs, settled,
                 generatedFiles, uploads, responses, nextUuid>>

\* The setInterval callback.
PeriodicSweepWith(failing) ==
  /\ nextSweep = clock
  /\ files' = PeriodicCleanupRun(files, clock, failing).dir
  /\ nextSweep' = nextSweep + SweepPeriod
  /\ UNCHANGED <<clock, rpc, upload, srvThreshold, persons, jobs, settled,
                 generatedFiles, uploads, timers, responses, nextUuid>>

\* POST /api/cleanup.
ManualCleanupWith(failing) ==
  /\ files' = CleanupProcessedImagesRun(files, failing).dir
  /\ UNCHANGED <<clock, nextSweep, rpc, upload, srvThreshold, persons, jobs, settled,
                 generatedFiles, uploads, timers, responses, nextUuid>>

\* In the request lifecycle the file system refuses no removal.
DeferredCleanup(r, k) == DeferredCleanupWith(r, k, {}) /\ UNCHANGED others

PeriodicSweep == PeriodicSweepWith({}) /\ UNCHANGED others

ManualCleanup == ManualCleanupWith({}) /\ UNCHANGED others

\* No handler or job is between two of its awaits.
Quiescent ==
  \A r \in Reqs :
    /\ rpc[r] \in {"idle", "done"}
    /\ \A k \in 1..Len(jobs[r]) : jobs[r][k].pc \in {"fulfilled", "rejected"}

\* A minute passes; a timer that is due runs first.  An await takes far less
\* than a minute, so the minute ends with no await outstanding.
Tick ==
  /\ clock < MaxTime
  /\ Quiescent
  /\ nextSweep > clock
  /\ \A r \in Reqs : \A k \in 1..Len(timers[r]) :
       timers[r][k].state = "pending" => timers[r][k].due > clock
  /\ clock' = clock + 1
  /\ UNCHANGED <<nextSweep, rpc, upload, srvThreshold, persons, jobs, settled,
                 generatedFiles, uploads, files, timers, responses, nextUuid>>
  /\ UNCHANGED others

Next ==
  \/ \E r \in Reqs, kind \in UploadKinds, form \in RequestForms : Arrive(r, kind, form)
  \/ \E r \in Reqs : MetadataDone(r)
  \/ \E r \in Reqs : ServiceFails(r)
  \/ \E r \in Reqs, ps \in ServiceAnswers : ServiceAnswersWith(r, ps)
  \/ \E r \in Reqs, i \in 1..MaxPersons, readOk \in BOOLEAN : LoadDone(r, i, readOk)
  \/ \E r \in Reqs, i \in 1..MaxPersons : CropDone(r, i)
  \/ \E r \in Reqs, k \in 1..MaxPersons : DeferredCleanup(r, k)
  \/ PeriodicSweep
  \/ ManualCleanup
  \/ Tick

Spec == Init /\ [][Next]_vars

\* ================================================================== claims
Settled(r, i) == jobs[r][i].pc \in {"fulfilled", "rejected"}

CropFails(person) == ~ExtractOk(CropRegion(person, ImgW, ImgH), ImgW, ImgH)

NoTimerDueNow ==
  /\ nextSweep > clock
  /\ \A r \in Reqs : \A k \in 1..Len(timers[r]) :
       timers[r][k].state = "pending" => timers[r][k].due > clock

\* C1: whenever a detect request has been answered, its uploaded source file
\* is no longer in the upload directory.
C1_SourceDeletedOnEveryExit ==
  \A r \in Reqs : responses[r] # << >> => r \notin uploads

\* C2: an artifact file written at time T is absent from the artifact directory
\* at T + 5 minutes: once every callback due at the current minute has run, no
\* file of the directory is 5 minutes old or older.
C2_ArtifactAbsentAfterFiveMinutes ==
  NoTimerDueNow => \A f \in files : clock - f.mtime < 5

\* C3: every answered detect request that generated artifact files has exactly
\* one deferred deletion scheduled for them.
C3_OneDeferredDeletionPerBatch ==
  \A r \in Reqs :
    (rpc[r] = "done" /\ generatedFiles[r] # << >>) => Len(timers[r]) = 1

\* C4: the result list of a successful response is in the input order of the
\* persons: results[i] is the record of person i, with personId i (counting from
\* 1), whatever the order in which the per-person jobs settled.
C4_ResultsInInputOrder ==
  \A r \in Reqs : \A n \in 1..Len(responses[r]) :
    LET resp == responses[r][n]
    IN resp.success =>
         /\ Len(resp.results) = Len(persons[r])
         /\ \A i \in 1..Len(persons[r]) :
              /\ resp.results[i].personId = i
              /\ resp.results[i].confidence = MathRound(persons[r][i].Confidence)
              /\ resp.results[i].image.id = persons[r][i].Id
              /\ resp.results[i].boundingBox.x = persons[r][i].BoundingBox.Left
              /\ resp.results[i].boundingBox.width = persons[r][i].BoundingBox.Width

\* C4 witness: a successful response for two different persons whose jobs
\* settled in the order 2, 1.
C4_Witness ==
  \E r \in Reqs :
    /\ Len(persons[r]) = 2 /\ persons[r][1] # persons[r][2]
    /\ settled[r] = <<2, 1>>
    /\ responses[r] # << >> /\ responses[r][1].success

C6_AllOrNothing ==
  \A r \in Reqs :
    /\ Len(responses[r]) <= 1
    /\ (rpc[r] = "done") <=> (Len(responses[r]) = 1)
    /\ \A n \in 1..Len(responses[r]) :
         LET resp == responses[r][n]
         IN IF resp.success
            THEN /\ Len(resp.results) = Len(persons[r])
                 /\ \A i \in 1..Len(resp.results) : resp.results[i].personId = i
            ELSE resp.results = << >>

\* C6 witness: a request answered with an error although one of its persons
\* already had a finished record.
C6_Witness ==
  \E r \in Reqs :
    /\ Len(responses[r]) = 1 /\ ~responses[r][1].success
    /\ \E i \in 1..Len(jobs[r]) : jobs[r][i].pc = "fulfilled"
    /\ settled[r][Len(settled[r])] \in {i \in 1..Len(jobs[r]) : jobs[r][i].pc = "rejected"}

\* C12: a request whose upload is not an image is answered with an error,
\* without a call to the detection service and without an artifact file, and
\* leaves nothing behind: no source file, no timer.
C12_MalformedUploadLeavesNothing ==
  \A r \in Reqs :
    upload[r] = "notImage" =>
      /\ rpc[r] \in {"metadata", "done"}
      /\ persons[r] = << >> /\ jobs[r] = << >> /\ generatedFiles[r] = << >>
      /\ rpc[r] = "done" =>
           /\ Len(responses[r]) = 1 /\ ~responses[r][1].success
           /\ timers[r] = << >>
           /\ r \notin uploads

\* rekognitionClient.send rejected: the request ended with an error before any
\* mapper was started.
ServiceCallFailed(r) ==
  /\ upload[r] = "image"
  /\ jobs[r] = << >>
  /\ Len(responses[r]) = 1 /\ ~responses[r][1].success

\* C13: an error response names the detection service if and only if the call
\* to the service failed; a failure of the server's own processing (image
\* metadata, record assembly) is reported as "Error processing image".
C13_ErrorKindNamesTheFailedParty ==
  \A r \in Reqs : \A n \in 1..Len(responses[r]) :
    LET resp == responses[r][n]
    IN ~resp.success =>
         /\ (resp.error = "Failed to process image with AWS Rekognition")
              <=> ServiceCallFailed(r)
         /\ (resp.error = "Error processing image") <=> ~ServiceCallFailed(r)

\* The artifact files the response of request r refers to.
ServedNames(r) ==
  IF responses[r] = << >> THEN {}
  ELSE LET results == responses[r][1].results
       IN {<<results[i].image.id, results[i].image.uuid>> :
             i \in {j \in 1..Len(results) : results[j].image.kind = "file"}}

TimerPending(r) == \E k \in 1..Len(timers[r]) : timers[r][k].state = "pending"

\* This step runs the setTimeout callback of request r.
TimerFires(r) ==
  \E k \in 1..Len(timers[r]) :
    timers[r][k].state = "pending" /\ timers'[r][k].state = "fired"

GeneratedNames(r) == {generatedFiles[r][i] : i \in 1..Len(generatedFiles[r])}

\* C14 as stated: as long as the deferred deletion of an answered request has
\* not fired, every artifact file its response refers to is in the directory.
C14_ServedFilePresentUntilItsTrigger ==
  \A r \in Reqs :
    TimerPending(r) => \A name \in ServedNames(r) : ExistsSync(files, name)

\* C14 amended: as long as the deferred deletion of an answered request has not
\* fired, an artifact file its response refers to leaves the directory only in
\* a step that is a manual cleanup or that deferred deletion itself; no
\* periodic sweep, other request or other request's timer removes it.
C14_ServedFileRemovedOnlyByTriggerOrManualCleanup ==
  [][\A r \in Reqs : \A name \in ServedNames(r) :
       (TimerPending(r) /\ ExistsSync(files, name) /\ ~ExistsSync(files', name))
         => (ManualCleanup \/ TimerFires(r))]_vars

\* C14 witness: the periodic sweep of minute 5 has run while the deferred
\* deletion of an answered request was pending, and the files of its response
\* are all there.
C14_Witness ==
  \E r \in Reqs :
    /\ TimerPending(r)
    /\ ServedNames(r) # {}
    /\ \A name \in ServedNames(r) : ExistsSync(files, name)
    /\ nextSweep > SweepPeriod

\* C16: every artifact path is written at most once: no path occurs twice among
\* the files written by all requests (generatedFiles records every write, and
\* keeps the paths of deleted files), and every file of the directory is one
\* of them.
C16_EveryPathWrittenOnce ==
  /\ \A r, q \in Reqs :
       \A i \in 1..Len(generatedFiles[r]), j \in 1..Len(generatedFiles[q]) :
         generatedFiles[r][i] = generatedFiles[q][j] => (r = q /\ i = j)
  /\ \A f \in files : \E r \in Reqs : f.name \in GeneratedNames(r)

\* C16 witness: a request wrote two files for persons with the same Id, both
\* since deleted, and another request wrote a file for a person with that Id,
\* which is in the directory.
C16_Witness ==
  \E r, q \in Reqs :
    /\ r # q
    /\ Len(generatedFiles[r]) = 2
    /\ generatedFiles[r][1][1] = generatedFiles[r][2][1]
    /\ \A i \in 1..2 : ~ExistsSync(files, generatedFiles[r][i])
    /\ \E j \in 1..Len(generatedFiles[q]) :
         /\ generatedFiles[q][j][1] = generatedFiles[r][1][1]
         /\ ExistsSync(files, generatedFiles[q][j])

\* C17: the step that runs the deferred deletion of request r removes only
\* files that r generated, adds none, and leaves the state of every request
\* and the timers of the other requests unchanged.
C17_DeferredDeletionRemovesOwnFilesOnly ==
  [][\A r \in Reqs :
       TimerFires(r) =>
         /\ files' \subseteq files
         /\ \A f \in files \ files' : f.name \in GeneratedNames(r)
         /\ \A q \in Reqs \ {r} : timers'[q] = timers[q]
         /\ UNCHANGED <<rpc, persons, jobs, settled, generatedFiles, uploads,
                        responses>>]_vars

\* C17 witness: the deferred deletion of one request has run, which was after
\* minute 0, and a file another request wrote at minute 0 is still there, that
\* request's own deletion pending.
C17_Witness ==
  \E r, q \in Reqs :
    /\ r # q
    /\ generatedFiles[r] # << >>
    /\ Len(timers[r]) = 1 /\ timers[r][1].state = "fired"
    /\ TimerPending(q)
    /\ \E f \in files : f.mtime = 0 /\ f.name \in GeneratedNames(q)

\* The request ended in an error of the server's own processing.
FailedInternally(r) ==
  /\ Len(responses[r]) = 1 /\ ~responses[r][1].success
  /\ ~ServiceCallFailed(r)

\* C22: the error payload of a request that failed internally does not depend
\* on the reason of the failure: any two requests that failed internally, for
\* whatever reasons, were answered with the same payload.
C22_InternalErrorPayloadIsGeneric ==
  \A r, q \in Reqs :
    (FailedInternally(r) /\ FailedInternally(q)) => responses[r][1] = responses[q][1]

\* The source file of request r has been unlinked by its handler.
SourceDeleted(r) == rpc[r] # "idle" /\ r \notin uploads

\* C25: once the source file of a request is deleted or its response is
\* produced, every per-person job of the request has finished: none is still
\* to read the source, to write its artifact or to register a generated file.
C25_SourceOutlivesEveryJob ==
  \A r \in Reqs :
    (SourceDeleted(r) \/ responses[r] # << >>)
      => \A i \in 1..Len(jobs[r]) : Settled(r, i)

\* C26: the pixel region handed to sharp.extract lies inside the image, also
\* for a box with left+width > 1 or top+height > 1.
C26_CropRegionInsideImage ==
  \A r \in Reqs : \A i \in 1..Len(jobs[r]) :
    jobs[r][i].pc = "crop" =>
      LET region == CropRegion(persons[r][i], ImgW, ImgH)
      IN /\ region.left >= 0 /\ region.top >= 0
         /\ region.left + region.width <= ImgW
         /\ region.top + region.height <= ImgH

\* ======================================================= overlay classifier
serverVars == <<clock, nextSweep, rpc, upload, srvThreshold, persons, jobs, settled,
                generatedFiles, uploads, files, timers, responses, nextUuid>>

\* Confidences and thresholds run over -ClassifyRange..ClassifyRange halves.
ClassifyRange == 6

ClassifyConfidences == {Undefined} \cup ((0 - ClassifyRange)..ClassifyRange)

ClassifyThresholds == (0 - ClassifyRange)..ClassifyRange

InitClassify ==
  /\ ServerInit
  /\ client = ClientInit
  /\ \E c \in ClassifyConfidences, t \in ClassifyThresholds :
       call = [op |-> "classify", conf |-> c, threshold |-> t, status |-> "pending"]

\* The status processPersonImage gives one equipment detection.
ClassifyEquipment ==
  /\ call.op = "classify"
  /\ call.status = "pending"
  /\ call' = [call EXCEPT !.status = Classify(call.conf, call.threshold)]
  /\ UNCHANGED <<serverVars, client>>

NextClassify == ClassifyEquipment

SpecClassify == InitClassify /\ [][NextClassify]_vars

Classified == call.op = "classify" /\ call.status # "pending"

\* C7 as stated: Detected iff c >= t, Indeterminate iff 0 < c < t, NotDetected
\* iff c <= 0 or the confidence is missing.
C7_ClassifierTable ==
  Classified =>
    LET c == call.conf
        t == call.threshold
        missing == c = Undefined
    IN /\ (call.status = "Detected") <=> (~missing /\ c >= t)
       /\ (call.status = "Indeterminate") <=> (~missing /\ 0 < c /\ c < t)
       /\ (call.status = "Not Detected") <=> (missing \/ c <= 0)

\* C7 amended: with r the confidence rounded to the nearest integer (halves
\* up), Detected iff r >= t, Indeterminate iff 0 < r < t, NotDetected iff the
\* confidence is missing or r <= 0 and r < t; a status is always produced.
C7_ClassifierTableRounded ==
  Classified =>
    LET c == call.conf
        t == call.threshold
    IN /\ call.status \in {"Detected", "Indeterminate", "Not Detected"}
       /\ c = Undefined => call.status = "Not Detected"
       /\ c # Undefined =>
            \E k \in (0 - ClassifyRange)..ClassifyRange :
              /\ 2 * k - 1 <= c /\ c < 2 * k + 1
              /\ (call.status = "Detected") <=> (2 * k >= t)
              /\ (call.status = "Indeterminate") <=> (0 < 2 * k /\ 2 * k < t)
              /\ (call.status = "Not Detected") <=> (2 * k <= 0 /\ 2 * k < t)

\* C7 witness: a confidence half a point under the threshold, classified
\* Detected.
C7_Witness ==
  /\ Classified
  /\ call.conf # Undefined /\ call.conf + 1 = call.threshold
  /\ call.status = "Detected"

\* ===================================================== the annotation pass
\* An image is the list of the rectangles painted onto the uploaded picture, in
\* painting order (a later one covers an earlier one); << >> is the picture as
\* uploaded.  Pixel coordinates are in eighths of a pixel.
MaxOverlayDets == 3

OriginalImage == << >>

OverlayThresholds == {Num(80), Num(95)}

\* Variant: the rectangle with its origin on the pixel grid.
EqRectFloored(box, w, h) ==
  [x |-> 8 * FloorScale(box.Left, w), y |-> 8 * FloorScale(box.Top, h),
   w |-> box.Width * w, h |-> box.Height * h]

\* eqX, eqY, eqWidth, eqHeight
EqRect(box, w, h) ==
  [x |-> box.Left * w, y |-> box.Top * h, w |-> box.Width * w, h |-> box.Height * h]

DetectionColor(status) == IF status = "Detected" THEN "#00FF00" ELSE "#FFFF00"

\* fullCtx.fillRect with fillStyle color + "20", then fullCtx.strokeRect with
\* strokeStyle color and lineWidth 3.
DrawRectangle(rect, color) ==
  << [op |-> "fillRect", rect |-> rect, style |-> <<color, "20">>, lineWidth |-> 0],
     [op |-> "strokeRect", rect |-> rect, style |-> <<color, "">>, lineWidth |-> 3] >>

\* Variant: a detection that is Not Detected marked in red.
DetectionOpsMarkMissing(equipment, threshold, w, h) ==
  LET status == Classify(equipment.Confidence, threshold)
  IN DrawRectangle(EqRect(equipment.BoundingBox, w, h),
                   IF status = "Not Detected" THEN "#FF0000" ELSE DetectionColor(status))

\* The body of the inner forEach for one equipment detection (the service
\* gives every detection a BoundingBox).
DetectionOps(equipment, threshold, w, h) ==
  LET status == Classify(equipment.Confidence, threshold)
  IN IF status = "Detected" \/ status = "Indeterminate"
     THEN DrawRectangle(EqRect(equipment.BoundingBox, w, h), DetectionColor(status))
     ELSE << >>

\* bodyPart.EquipmentDetections.forEach(...), skipped for a part without
\* detections.
RECURSIVE EquipmentOps(_, _, _, _)
EquipmentOps(dets, threshold, w, h) ==
  IF dets = << >> THEN << >>
  ELSE DetectionOps(Head(dets), threshold, w, h) \o EquipmentOps(Tail(dets), threshold, w, h)

\* person.BodyParts.forEach(...)
RECURSIVE OverlayOps(_, _, _, _)
OverlayOps(parts, threshold, w, h) ==
  IF parts = << >> THEN << >>
  ELSE (IF Head(parts).hasDetections /\ Len(Head(parts).EquipmentDetections) > 0
        THEN EquipmentOps(Head(parts).EquipmentDetections, threshold, w, h)
        ELSE << >>)
       \o OverlayOps(Tail(parts), threshold, w, h)

\* Variant: the rectangles drawn on the loaded image itself, which all passes
\* of the request share.
AnnotationPassOnSource(source, person, threshold, w, h) ==
  LET drawn == source \o OverlayOps(person.BodyParts, threshold, w, h)
  IN [source |-> drawn, canvas |-> drawn]

\* createCanvas, drawImage(originalImg, 0, 0), the overlay loop, toBuffer: the
\* picture is copied onto a canvas of the pass and the rectangles go there.
AnnotationPass(source, person, threshold, w, h) ==
  [source |-> source,
   canvas |-> source \o OverlayOps(person.BodyParts, threshold, w, h)]

\* The equipment detections the annotated person is drawn from.
OverlayDetections ==
  {Equip("HEAD_COVER", 181, Box(1, 1, 3, 2)),
   Equip("FACE_COVER", 121, Box(2, 0, 4, 4)),
   Equip("HAND_COVER", 0, Box(1, 1, 3, 2))}

\* The ways of grouping the detections ds, in their order, into body parts.
RECURSIVE Splits(_)
Splits(ds) ==
  IF ds = << >> THEN {<< >>}
  ELSE UNION {{<<Part("HEAD", 198, SubSeq(ds, 1, k))>> \o rest :
                 rest \in Splits(SubSeq(ds, k + 1, Len(ds)))} : k \in 1..Len(ds)}

\* The body parts of the annotated person: up to MaxOverlayDets detections in
\* all, grouped into parts, alone or after a part that has none.
OverlayParts ==
  LET grouped == UNION {Splits(ds) : ds \in SeqsUpTo(OverlayDetections, MaxOverlayDets)}
  IN grouped
       \cup {<<PartNoDetections("HEAD", 120)>> \o parts : parts \in grouped}
       \cup {<<Part("HEAD", 160, << >>)>> \o parts : parts \in grouped}

OverlayPersons == {Person(0, 199, Box(1, 1, 4, 4), parts) : parts \in OverlayParts}

\* The second person of the request, annotated concurrently.
OtherPerson ==
  Person(1, 180, Box(0, 0, 8, 8),
         << Part("LEFT_HAND", 190, << Equip("HAND_COVER", 191, Box(4, 4, 3, 3)) >>) >>)

NoPass == [pc |-> "load", canvas |-> << >>, crop |-> [kind |-> "none"]]

InitOverlay ==
  /\ ServerInit
  /\ client = ClientInit
  /\ \E person \in OverlayPersons, t \in OverlayThresholds :
       call = [op |-> "overlay", source |-> OriginalImage, threshold |-> t,
               persons |-> <<person, OtherPerson>>, passes |-> <<NoPass, NoPass>>]

\* loadImage of pass i resolves; the pass runs up to its await of sharp.
Annotate(i) ==
  /\ call.op = "overlay"
  /\ call.passes[i].pc = "load"
  /\ LET done == AnnotationPass(call.source, call.persons[i], call.threshold, ImgW, ImgH)
     IN call' = [call EXCEPT !.source = done.source,
                             !.passes[i].pc = "crop",
                             !.passes[i].canvas = done.canvas]
  /\ UNCHANGED <<serverVars, client>>

\* sharp(fullImageBuffer).extract(...) of pass i settles.
Extract(i) ==
  /\ call.op = "overlay"
  /\ call.passes[i].pc = "crop"
  /\ LET region == CropRegion(call.persons[i], ImgW, ImgH)
     IN call' = [call EXCEPT
                   !.passes[i].pc = "done",
                   !.passes[i].crop =
                      IF ExtractOk(region, ImgW, ImgH)
                      THEN [kind |-> "file", region |-> region, of |-> call.passes[i].canvas]
                      ELSE [kind |-> "placeholder"]]
  /\ UNCHANGED <<serverVars, client>>

NextOverlay ==
  \/ \E i \in 1..2 : Annotate(i)
  \/ \E i \in 1..2 : Extract(i)

SpecOverlay == InitOverlay /\ [][NextOverlay]_vars

\* The equipment detections of a person in drawing order: body parts in their
\* order, the detections of a part in theirs.
RECURSIVE DetectionsInOrder(_)
DetectionsInOrder(parts) ==
  IF parts = << >> THEN << >>
  ELSE DetectionsInOrder(SubSeq(parts, 1, Len(parts) - 1))
         \o (IF parts[Len(parts)].hasDetections
             THEN parts[Len(parts)].EquipmentDetections ELSE << >>)

Annotated(i) == call.op = "overlay" /\ call.passes[i].pc # "load"

OverlayIsVisible(d) == Classify(d.Confidence, call.threshold) \in {"Detected", "Indeterminate"}

\* C23: the rectangles of a person's pass are, in the order of the body parts
\* and of the detections within a part, one fill followed by one outline per
\* detection classified Detected (green) or Indeterminate (yellow), and nothing
\* for a detection classified Not Detected.
C23_OverlayOpsInOrder ==
  \A i \in 1..2 :
    Annotated(i) =>
      LET visible == SelectSeq(DetectionsInOrder(call.persons[i].BodyParts), OverlayIsVisible)
          canvas == call.passes[i].canvas
      IN /\ Len(canvas) = 2 * Len(visible)
         /\ \A k \in 1..Len(visible) :
              LET color == IF Classify(visible[k].Confidence, call.threshold) = "Detected"
                           THEN "#00FF00" ELSE "#FFFF00"
                  fill == canvas[2 * k - 1]
                  outline == canvas[2 * k]
              IN /\ fill.op = "fillRect" /\ fill.style[1] = color
                 /\ outline.op = "strokeRect" /\ outline.style[1] = color
                 /\ fill.rect = outline.rect
                 /\ fill.rect.w = visible[k].BoundingBox.Width * ImgW
                 /\ fill.rect.h = visible[k].BoundingBox.Height * ImgH

\* C23 witness: a pass at threshold 80 over two body parts whose detections
\* are, in order, one Not Detected, one Indeterminate and one Detected: the
\* yellow rectangle is painted first and the green one over it.
C23_Witness ==
  /\ Annotated(1)
  /\ call.threshold = Num(80)
  /\ Len(call.persons[1].BodyParts) = 2
  /\ LET ds == DetectionsInOrder(call.persons[1].BodyParts)
     IN /\ Len(ds) = 3
        /\ ds[1].Confidence = 0 /\ ds[2].Confidence = 121 /\ ds[3].Confidence = 181
  /\ Len(call.passes[1].canvas) = 4
  /\ call.passes[1].canvas[1].style[1] = "#FFFF00"
  /\ call.passes[1].canvas[3].style[1] = "#00FF00"

\* The rectangles of the detections of person i.
OwnRects(i) ==
  LET ds == DetectionsInOrder(call.persons[i].BodyParts)
  IN {[x |-> ds[k].BoundingBox.Left * ImgW, y |-> ds[k].BoundingBox.Top * ImgH,
       w |-> ds[k].BoundingBox.Width * ImgW, h |-> ds[k].BoundingBox.Height * ImgH] :
        k \in 1..Len(ds)}

\* C24: the picture as loaded is never drawn on, and the annotated image and
\* the crop of a person hold rectangles of that person's detections only.
C24_PassesDoNotInterfere ==
  call.op = "overlay" =>
    /\ call.source = OriginalImage
    /\ \A i \in 1..2 :
         /\ \A k \in 1..Len(call.passes[i].canvas) :
              call.passes[i].canvas[k].rect \in OwnRects(i)
         /\ call.passes[i].crop.kind = "file" =>
              \A k \in 1..Len(call.passes[i].crop.of) :
                call.passes[i].crop.of[k].rect \in OwnRects(i)

\* C24 witness: both passes have drawn rectangles over the same picture and
\* both crops are made, each from its own annotated image.
C24_Witness ==
  /\ call.op = "overlay"
  /\ \A i \in 1..2 : call.passes[i].crop.kind = "file" /\ Len(call.passes[i].crop.of) > 0
  /\ call.passes[1].crop.of # call.passes[2].crop.of

\* C27 as stated: a drawn rectangle has its origin floored to whole pixels,
\* x = floor(left*W), y = floor(top*H), and w = width*W, h = height*H.
C27_RectOriginFloored ==
  \A i \in 1..2 :
    Annotated(i) =>
      LET ds == DetectionsInOrder(call.persons[i].BodyParts)
      IN \A n \in 1..Len(ds) :
           OverlayIsVisible(ds[n]) =>
             \E k \in 1..Len(call.passes[i].canvas) :
               LET rect == call.passes[i].canvas[k].rect
               IN /\ rect.x = 8 * FloorScale(ds[n].BoundingBox.Left, ImgW)
                  /\ rect.y = 8 * FloorScale(ds[n].BoundingBox.Top, ImgH)
                  /\ rect.w = ds[n].BoundingBox.Width * ImgW
                  /\ rect.h = ds[n].BoundingBox.Height * ImgH

\* C27 amended: a drawn rectangle is the normalized box scaled by the image
\* dimensions with nothing floored: x = left*W, y = top*H, w = width*W,
\* h = height*H.
C27_RectScaledDirectly ==
  \A i \in 1..2 :
    Annotated(i) =>
      LET ds == DetectionsInOrder(call.persons[i].BodyParts)
      IN \A n \in 1..Len(ds) :
           OverlayIsVisible(ds[n]) =>
             \E k \in 1..Len(call.passes[i].canvas) :
               LET rect == call.passes[i].canvas[k].rect
               IN /\ rect.x = ds[n].BoundingBox.Left * ImgW
                  /\ rect.y = ds[n].BoundingBox.Top * ImgH
                  /\ rect.w = ds[n].BoundingBox.Width * ImgW
                  /\ rect.h = ds[n].BoundingBox.Height * ImgH

\* C27 witness: a rectangle drawn with its origin half a pixel off the grid
\* (left 1/8 of 4 pixels).
C27_Witness ==
  /\ Annotated(1)
  /\ \E k \in 1..Len(call.passes[1].canvas) :
       /\ call.passes[1].canvas[k].op = "strokeRect"
       /\ call.passes[1].canvas[k].rect.x % 8 # 0
       /\ call.passes[1].canvas[k].rect.y % 8 # 0

\* =========================================== result assembly and the client
MaxParts == 2

AssembleConfidences == {0, 159, 181}

AssembleThresholds == {Num(80), Num(95)}

AssembleDetections ==
  {Equip(type, c, Box(2, 2, 2, 2)) : type \in {"HEAD_COVER", "HAND_COVER"},
                                     c \in AssembleConfidences}

AssembleParts ==
  {Part("HEAD", 197, dets) : dets \in SeqsUpTo(AssembleDetections, 2)}

AssemblePersons ==
  {Person(0, 199, Box(1, 1, 4, 4), parts) : parts \in SeqsUpTo(AssembleParts, MaxParts)}

PpeItems == {"hardHat", "faceMask", "handProtectionL", "handProtectionR"}

\* Variant: <= in place of <.
ProcessDetectionResultLeq(result, threshold) ==
  [f \in DOMAIN result |->
     IF f \in PpeItems /\ Geq(threshold, result[f].confidence) /\ result[f].status = "Detected"
     THEN [result[f] EXCEPT !.status = "Indeterminate"]
     ELSE result[f]]

\* processDetectionResults, for one record: a Detected item under the
\* threshold becomes Indeterminate.
ProcessDetectionResult(result, threshold) ==
  [f \in DOMAIN result |->
     IF f \in PpeItems /\ Lt(result[f].confidence, threshold) /\ result[f].status = "Detected"
     THEN [result[f] EXCEPT !.status = "Indeterminate"]
     ELSE result[f]]

ProcessDetectionResults(results, threshold) ==
  [k \in 1..Len(results) |-> ProcessDetectionResult(results[k], threshold)]

InitAssemble ==
  /\ ServerInit
  /\ client = ClientInit
  /\ \E person \in AssemblePersons, t \in AssembleThresholds :
       call = [op |-> "assemble", person |-> person, threshold |-> t,
               stage |-> "input", results |-> << >>]

\* The per-person mapper builds the record the response carries.
AssembleResult ==
  /\ call.op = "assemble"
  /\ call.stage = "input"
  /\ call' = [call EXCEPT !.stage = "served",
                          !.results = <<PersonRecord(call.person, 0, PlaceholderUrl(call.person))>>]
  /\ UNCHANGED <<serverVars, client>>

\* The page applies its threshold to the results of the response.
Reclassify ==
  /\ call.op = "assemble"
  /\ call.stage = "served"
  /\ call' = [call EXCEPT !.stage = "shown",
                          !.results = ProcessDetectionResults(call.results, call.threshold)]
  /\ UNCHANGED <<serverVars, client>>

NextAssemble == AssembleResult \/ Reclassify

SpecAssemble == InitAssemble /\ [][NextAssemble]_vars

ItemType(item) ==
  IF item = "hardHat" THEN "HEAD_COVER"
  ELSE IF item = "faceMask" THEN "FACE_COVER"
  ELSE "HAND_COVER"

ItemRegions(item) ==
  IF item = "hardHat" THEN {"HEAD"}
  ELSE IF item = "faceMask" THEN {"FACE"}
  ELSE {"LEFT_HAND", "RIGHT_HAND"}

\* The positions <<part, detection>> of the detections of a type.
Matches(bodyParts, type) ==
  UNION {{<<p, k>> : k \in {j \in 1..Len(bodyParts[p].EquipmentDetections) :
                                 bodyParts[p].EquipmentDetections[j].Type = type}} :
         p \in 1..Len(bodyParts)}

\* The first of them, by part and then by detection.
FirstMatch(bodyParts, type) ==
  CHOOSE pk \in Matches(bodyParts, type) :
    \A qk \in Matches(bodyParts, type) :
      pk[1] < qk[1] \/ (pk[1] = qk[1] /\ pk[2] <= qk[2])

MatchConfidence(bodyParts, type) ==
  LET pk == FirstMatch(bodyParts, type)
  IN bodyParts[pk[1]].EquipmentDetections[pk[2]].Confidence

Shown == call.op = "assemble" /\ call.stage = "shown"

\* C8 as stated: after assembly and re-classification at threshold t, an item
\* whose matching detection has confidence c is Detected with confidence c if
\* c >= t and Indeterminate with confidence c if 0 < c < t; an item with no
\* detection of its type is NotDetected with confidence 0.
C8_StatusAfterReclassification ==
  Shown =>
    \A item \in PpeItems :
      LET parts == call.person.BodyParts
          type == ItemType(item)
          t == call.threshold
          shown == call.results[1][item]
      IN IF Matches(parts, type) = {}
         THEN shown = [status |-> "Not Detected", confidence |-> 0]
         ELSE LET c == MatchConfidence(parts, type)
              IN /\ c >= t => shown = [status |-> "Detected", confidence |-> c]
                 /\ (0 < c /\ c < t) => shown = [status |-> "Indeterminate", confidence |-> c]

\* C8 amended: the same with the confidence of the first matching detection
\* rounded to the nearest integer r (halves up): Detected with confidence r if
\* r >= t, Indeterminate with confidence r if 0 < r < t, NotDetected with
\* confidence 0 if no detection of the type is present.
C8_StatusAfterReclassificationRounded ==
  Shown =>
    \A item \in PpeItems :
      LET parts == call.person.BodyParts
          type == ItemType(item)
          t == call.threshold
          shown == call.results[1][item]
      IN IF Matches(parts, type) = {}
         THEN shown = [status |-> "Not Detected", confidence |-> 0]
         ELSE LET c == MatchConfidence(parts, type)
              IN \E k \in 0..100 :
                   /\ 2 * k - 1 <= c /\ c < 2 * k + 1
                   /\ 2 * k >= t => shown = [status |-> "Detected", confidence |-> 2 * k]
                   /\ (0 < 2 * k /\ 2 * k < t)
                        => shown = [status |-> "Indeterminate", confidence |-> 2 * k]

\* C8 witness: a hard hat at 79.5 shown at threshold 80, a hand cover at 90.5
\* shown at the same threshold.
C8_Witness ==
  /\ Shown
  /\ call.threshold = Num(80)
  /\ Matches(call.person.BodyParts, "HEAD_COVER") # {}
  /\ MatchConfidence(call.person.BodyParts, "HEAD_COVER") = 159
  /\ call.results[1].hardHat.status = "Detected"
  /\ Matches(call.person.BodyParts, "HAND_COVER") # {}
  /\ Matches(call.person.BodyParts, "FACE_COVER") = {}

\* C10: an item for whose region a body part exists while no detection of the
\* item's type exists is NotDetected with that body part's rounded confidence;
\* the confidence is 0 only without such a body part.
C10_PartConfidenceWhenNoDetection ==
  (call.op = "assemble" /\ call.stage # "input") =>
    \A item \in PpeItems :
      LET parts == call.person.BodyParts
          served == call.results[1][item]
      IN Matches(parts, ItemType(item)) = {} =>
           /\ served.status \in {"Not Detected"}
           /\ \A k \in 1..Len(parts) :
                (/\ parts[k].Name \in ItemRegions(item)
                 /\ \A j \in 1..(k - 1) : parts[j].Name \notin ItemRegions(item))
                  => served.confidence = MathRound(parts[k].Confidence)
           /\ (\A k \in 1..Len(parts) : parts[k].Name \notin ItemRegions(item))
                => served.confidence = 0

Served == call.op = "assemble" /\ call.stage = "served"

\* C11: for each category with a detection of its type, the record the server
\* returns is Detected with the confidence, rounded to an integer, of the first
\* detection of that type (in the given order) within the first body part (in
\* the given order) that contains a detection of that type.
C11_FirstMatchingDetection ==
  Served =>
    \A item \in PpeItems :
      LET parts == call.person.BodyParts
          type == ItemType(item)
          served == call.results[1][item]
      IN Matches(parts, type) # {} =>
           LET c == MatchConfidence(parts, type)
           IN \E k \in 0..100 :
                /\ 2 * k - 1 <= c /\ c < 2 * k + 1
                /\ served = [status |-> "Detected", confidence |-> 2 * k]

\* C11 witness: a served record for a person whose first body part has no head
\* cover and whose second body part has two head covers, at 79.5 and at 90.5.
C11_Witness ==
  /\ Served
  /\ Len(call.person.BodyParts) = 2
  /\ ~HasType(call.person.BodyParts[1], "HEAD_COVER")
  /\ Len(call.person.BodyParts[2].EquipmentDetections) = 2
  /\ call.person.BodyParts[2].EquipmentDetections[1].Type = "HEAD_COVER"
  /\ call.person.BodyParts[2].EquipmentDetections[1].Confidence = 159
  /\ call.person.BodyParts[2].EquipmentDetections[2].Type = "HEAD_COVER"
  /\ call.person.BodyParts[2].EquipmentDetections[2].Confidence = 181
  /\ call.results[1].hardHat = [status |-> "Detected", confidence |-> Num(80)]

\* C20: in every result record, as returned by the server and after the
\* client's re-classification at its threshold, handProtectionL and
\* handProtectionR have the same status and the same confidence.
C20_HandsIdentical ==
  (call.op = "assemble" /\ call.stage # "input") =>
    /\ call.results[1].handProtectionL.status = call.results[1].handProtectionR.status
    /\ call.results[1].handProtectionL.confidence
         = call.results[1].handProtectionR.confidence

\* C20 witness: a record shown at threshold 95 whose hand cover, found at 90.5
\* in the first body part only, was re-classified Indeterminate.
C20_Witness ==
  /\ Shown
  /\ call.threshold = Num(95)
  /\ Len(call.person.BodyParts) = 2
  /\ HasType(call.person.BodyParts[1], "HAND_COVER")
  /\ ~HasType(call.person.BodyParts[2], "HAND_COVER")
  /\ call.results[1].handProtectionL = [status |-> "Indeterminate", confidence |-> Num(91)]

EntryValues == {Num(0), Num(30), 161, Num(100)}

\* The image files the user picks from.
MaxFiles == 2

Files == 1..MaxFiles

\* processFileUpload: a file that passes validateImageFile becomes the selected
\* one and the displayed results are cleared; an invalid one only sets the
\* error text.
ProcessFileUpload(file, valid) ==
  /\ IF valid
     THEN client' = [client EXCEPT !.uploadedFile = file, !.results = NoFile]
     ELSE UNCHANGED client
  /\ UNCHANGED <<serverVars, call>>

\* setConfidence(prev => Math.min(95, prev + 5))
IncreaseConfidence ==
  /\ client' = [client EXCEPT !.confidence =
                  IF @ + Num(5) < Num(95) THEN @ + Num(5) ELSE Num(95)]
  /\ UNCHANGED <<serverVars, call>>

\* setConfidence(prev => Math.max(50, prev - 5))
DecreaseConfidence ==
  /\ client' = [client EXCEPT !.confidence =
                  IF @ - Num(5) > Num(50) THEN @ - Num(5) ELSE Num(50)]
  /\ UNCHANGED <<serverVars, call>>

\* onChange of the number input: setConfidence(Number(e.target.value))
EnterConfidence(v) ==
  /\ client' = [client EXCEPT !.confidence = v]
  /\ UNCHANGED <<serverVars, call>>

\* processImage: ppeAPI.detectPPE(uploadedFile, confidence) posts the form.
ProcessImage ==
  /\ ~client.inFlight
  /\ client.uploadedFile # NoFile
  /\ client' = [client EXCEPT !.inFlight = TRUE,
                              !.form = CreateFormData(client.confidence),
                              !.submitted = client.confidence,
                              !.srvThreshold = Undefined,
                              !.sentFile = client.uploadedFile]
  /\ UNCHANGED <<serverVars, call>>

\* The /api/detect handler reads its threshold from the body and answers;
\* processImage resumes: setResults(processedResults) on success,
\* setResults([]) otherwise.
DetectReadsThreshold(success) ==
  /\ client.inFlight
  /\ client' = [client EXCEPT !.inFlight = FALSE,
                              !.srvThreshold = ParseThreshold(client.form),
                              !.results = IF success THEN client.sentFile ELSE NoFile,
                              !.sentFile = NoFile]
  /\ UNCHANGED <<serverVars, call>>

InitClient == ServerInit /\ call = NoCall /\ client = ClientInit

NextClient ==
  \/ IncreaseConfidence
  \/ DecreaseConfidence
  \/ \E v \in EntryValues : EnterConfidence(v)
  \/ \E file \in Files, valid \in BOOLEAN : ProcessFileUpload(file, valid)
  \/ ProcessImage
  \/ \E success \in BOOLEAN : DetectReadsThreshold(success)

SpecClient == InitClient /\ [][NextClient]_vars

\* C9: the threshold the server uses for a request of the client is the
\* threshold the client submitted with it.
C9_ServerUsesSubmittedThreshold ==
  client.srvThreshold # Undefined => client.srvThreshold = client.submitted

\* C28: the results on display belong to the selected image: a response that
\* arrives after another image was selected is not shown for that image.
C28_ResultsBelongToSelectedImage ==
  client.results # NoFile => client.results = client.uploadedFile

\* C29: the threshold the client holds, and the one it submitted with a detect
\* request, lie within 50..95 after any increase, decrease or direct entry.
C29_ThresholdWithinRange ==
  /\ Num(50) <= client.confidence /\ client.confidence <= Num(95)
  /\ client.submitted # Undefined =>
       (Num(50) <= client.submitted /\ client.submitted <= Num(95))

\* =============================================== the three cleanup triggers
\* The directory and its timers once requests have written into it, on a file
\* system that may refuse removals.  Request 1 was answered with success at
\* minute answered and its timer has not run; request 2 failed at minute
\* failed, after its mappers had written their files, so it has no timer.  The
\* other variables of the requests are not read by the triggers and stay as at
\* the start.
MaxStart == 4
MaxBatch == 2
MaxOrphans == 1
MaxRefused == 1

\* The sets of paths of a directory whose removal may be refused in one run.
FailingSets(dir) == {F \in SUBSET Names(dir) : Cardinality(F) <= MaxRefused}

NoAnswer == [success |-> FALSE, error |-> "", message |-> ""]

\* What a trigger did when it last ran.
NoOutcome ==
  [op |-> "none", req |-> 0, now |-> 0, before |-> {}, failing |-> {}, logged |-> {},
   threw |-> FALSE, answer |-> NoAnswer]

Outcome(op, r, run, failing, answer) ==
  [op |-> op, req |-> r, now |-> clock, before |-> files, failing |-> failing,
   logged |-> run.logged, threw |-> run.threw, answer |-> answer]

\* The paths of n files written for persons with Id 0, the uuids from first on.
BatchNames(first, n) == [i \in 1..n |-> FileName(PersonGood, first + i - 1)]

InitCleanup ==
  \E answered \in 0..MaxStart, n \in 0..MaxBatch, m \in 0..MaxOrphans :
    \E failed \in 0..(IF answered < MaxStart THEN answered + 1 ELSE MaxStart) :
      /\ clock = (IF failed > answered THEN failed ELSE answered)
      /\ nextSweep = SweepPeriod
      /\ rpc = [r \in Reqs |-> IF r <= 2 THEN "done" ELSE "idle"]
      /\ generatedFiles = [r \in Reqs |-> IF r = 1 THEN BatchNames(1, n)
                                           ELSE IF r = 2 THEN BatchNames(n + 1, m)
                                           ELSE << >>]
      /\ files = {[name |-> BatchNames(1, n)[i], mtime |-> answered] : i \in 1..n}
                   \cup (IF 2 \in Reqs
                         THEN {[name |-> BatchNames(n + 1, m)[i], mtime |-> failed] :
                                 i \in 1..m}
                         ELSE {})
      /\ timers = [r \in Reqs |-> IF r = 1
                                   THEN <<[due |-> answered + CleanupDelay,
                                           state |-> "pending"]>>
                                   ELSE << >>]
      /\ nextUuid = n + m + 1
      /\ upload = [r \in Reqs |-> "none"]
      /\ srvThreshold = [r \in Reqs |-> Undefined]
      /\ persons = [r \in Reqs |-> << >>]
      /\ jobs = [r \in Reqs |-> << >>]
      /\ settled = [r \in Reqs |-> << >>]
      /\ uploads = {}
      /\ responses = [r \in Reqs |-> << >>]
      /\ call = NoOutcome
      /\ client = ClientInit

\* The setTimeout callback of request r runs.
TimerCallback(r, k, failing) ==
  /\ DeferredCleanupWith(r, k, failing)
  /\ call' = Outcome("cleanupFiles", r,
                     CleanupFilesRun(files, generatedFiles[r], failing), failing, NoAnswer)
  /\ UNCHANGED client

\* The setInterval callback runs.
SweepCallback(failing) ==
  /\ PeriodicSweepWith(failing)
  /\ call' = Outcome("periodic", 0, PeriodicCleanupRun(files, clock, failing), failing,
                     NoAnswer)
  /\ UNCHANGED client

\* POST /api/cleanup is handled and answered.
CleanupRequest(failing) ==
  /\ ManualCleanupWith(failing)
  /\ call' = Outcome("cleanup", 0, CleanupProcessedImagesRun(files, failing), failing,
                     CleanupAnswer(CleanupProcessedImagesRun(files, failing)))
  /\ UNCHANGED client

NextCleanup ==
  \/ \E r \in Reqs, k \in 1..MaxPersons, failing \in FailingSets(files) :
       TimerCallback(r, k, failing)
  \/ \E failing \in FailingSets(files) : SweepCallback(failing)
  \/ \E failing \in FailingSets(files) : CleanupRequest(failing)
  \/ Tick

SpecCleanup == InitCleanup /\ [][NextCleanup]_vars

\* The files the trigger that ran last was to remove.
Targets ==
  IF call.op = "cleanupFiles" THEN GeneratedNames(call.req)
  ELSE IF call.op = "cleanup" THEN Names(call.before)
  ELSE Names({f \in call.before : call.now - f.mtime > MaxAge})

\* C15: whichever trigger runs, in any order with the others on the same files,
\* no exception leaves it, a path that is already absent is not an error (only
\* refused removals of present files are logged), it goes on to its remaining
\* files, and every file it was to remove and whose removal is not refused is
\* absent afterwards.
C15_AbsentFileIsNoError ==
  call.op # "none" =>
    /\ ~call.threw
    /\ call.logged \subseteq (call.failing \cap Names(call.before))
    /\ files \subseteq call.before
    /\ \A name \in Targets \ call.failing : ~ExistsSync(files, name)

\* C15 witness: the deferred deletion ran on two paths of which the first had
\* already been removed by another trigger and the second was still there, and
\* removed the second.
C15_Witness ==
  /\ call.op = "cleanupFiles"
  /\ Len(generatedFiles[call.req]) = 2
  /\ ~ExistsSync(call.before, generatedFiles[call.req][1])
  /\ ExistsSync(call.before, generatedFiles[call.req][2])
  /\ ~ExistsSync(files, generatedFiles[call.req][2])
  /\ ~call.threw

\* C18: a run of the periodic sweep removes the files whose modification time
\* is more than 2 minutes before the sweep (those whose removal the file system
\* refuses excepted), whatever the state of their timer, and leaves every
\* other file as it was.
C18_SweepRemovesExactlyTheOldFiles ==
  call.op = "periodic" =>
    /\ files \subseteq call.before
    /\ \A f \in call.before :
         f \in files <=> (call.now - f.mtime <= 2 \/ f.name \in call.failing)

\* C18 witness: a sweep removed a file 3 minutes old whose timer had fired and
\* kept a file exactly 2 minutes old.
C18_Witness ==
  /\ call.op = "periodic"
  /\ timers[1][1].state = "fired"
  /\ \E f \in call.before \ files :
       f.name \in GeneratedNames(1) /\ call.now - f.mtime = 3
  /\ \E g \in files : call.now - g.mtime = 2 /\ g.name \notin call.failing

\* C19: the manual cleanup removes every file that is in the directory when it
\* runs, whatever its age and its timer, except those whose removal the file
\* system refuses, which are logged; it always answers success.
C19_ManualCleanupRemovesAllAndSucceeds ==
  call.op = "cleanup" =>
    /\ call.answer.success
    /\ call.answer.message = "Cleanup completed successfully"
    /\ call.logged = call.failing \cap Names(call.before)
    /\ files = {f \in call.before : f.name \in call.failing}

\* C19 witness: a manual cleanup answered success after removing a file written
\* in that minute whose timer was pending, the removal of another file having
\* been refused.
C19_Witness ==
  /\ call.op = "cleanup"
  /\ call.answer.success
  /\ call.logged # {}
  /\ TimerPending(1)
  /\ \E f \in call.before \ files :
       f.name \in GeneratedNames(1) /\ f.mtime = call.now

====
